---- MODULE Spec2Model ----
(***************************************************************************)
(* Model of the two command line programs of midnight-scavenge-mine:       *)
(*   register-all-addresses.py  (derive, sign, register, progress ledger)  *)
(*   consolidate-rewards.py     (re-derive, sign, donate_to, summary)      *)
(* A behaviour is a sequence of runs of one of the two programs; files     *)
(* persist between the runs and a run may be interrupted at any step.      *)
(* The programs share only registrations.json, which the initial state     *)
(* provides in every form consolidation tells apart.  Text is a sequence   *)
(* of code points, an address string is the pair <<seed, index>> it was    *)
(* derived from.                                                           *)
(* FnSpec applies the derivation and the signing function on their own to  *)
(* inputs drawn from bounded sets.                                         *)
(***************************************************************************)
EXTENDS Integers, Sequences, FiniteSets, TLC

\* ------------------------------------------------------------------ bounds
MaxCount == 2
MaxRuns == 2
NumSeeds == 2
MaxLen == 2
MaxRegistered == 3

\* ----------------------------------------------------------- program data
MinCount == 1
LimitCount == 1000
RateLimitStatus == 429
OkStatus == 200
ErrorStatus == 400
AlgEdDSA == 0 - 8
SurrogateLow == 55296
SurrogateHigh == 57343

Seeds == 1..NumSeeds

ValidWordCounts == {12, 15, 18, 21, 24}

\* a mnemonic as the user typed it: its number of words, the wallet it
\* stands for and whether the words pass the checksum of the word list
Mnemonics ==
    {[words |-> 24, seed |-> s, checksum |-> TRUE] : s \in Seeds}
    \cup {[words |-> 11, seed |-> 1, checksum |-> TRUE],
          [words |-> 12, seed |-> 1, checksum |-> FALSE]}

Unread == [words |-> 0, seed |-> 0, checksum |-> FALSE]
\* "0" * 1000 is a single word
Cleared == [words |-> 1, seed |-> 0, checksum |-> FALSE]

\* the answer to "How many addresses to register?"
CountInputs ==
    {[numeric |-> TRUE, value |-> v] : v \in (0..MaxCount) \cup {LimitCount + 1}}
    \cup {[numeric |-> FALSE, value |-> 0]}

\* T, e with an acute accent, or T followed by a lone surrogate (json.loads
\* accepts "\ud800")
Messages == {<<84>>, <<233>>, <<84, SurrogateLow>>}

\* "addr1"
ChainPrefix == <<97, 100, 100, 114, 49>>

\* "Assign accumulated Scavenger rights to: "
ConsolidationText ==
    <<65, 115, 115, 105, 103, 110, 32, 97, 99, 99, 117, 109, 117, 108, 97, 116, 101, 100, 32, 83,
      99, 97, 118, 101, 110, 103, 101, 114, 32, 114, 105, 103, 104, 116, 115, 32, 116, 111, 58, 32>>

\* addr1q, addr1 followed by a lone surrogate, and s
Destinations ==
    {ChainPrefix \o <<113>>, ChainPrefix \o <<SurrogateLow>>, <<115>>}

NoAddress == <<>>

\* ------------------------------------------------------------- derivation
\* key material is a byte string that begins with its kind
PrivateTag == 2
PublicTag == 3

\* PaymentSigningKey.from_primitive of the key at path m/0/index
PaymentSigningKey(seed, index) == [secret |-> <<PrivateTag, seed, index>>]

\* PaymentVerificationKey.from_signing_key
from_signing_key(skey) == [public |-> <<PublicTag>> \o Tail(skey.secret)]

\* VerificationKey.hash
KeyHash(vkey) == Tail(vkey.public)

\* lines 51-68: the record of one index
Derive(seed, index) ==
    LET payment_skey == PaymentSigningKey(seed, index)
        payment_vkey == from_signing_key(payment_skey)
    IN [index |-> index,
        address |-> <<seed, index>>,
        address_obj |-> [payment_part |-> KeyHash(payment_vkey),
                         staking_part |-> <<seed>>],
        payment_skey |-> payment_skey,
        payment_vkey |-> payment_vkey]

\* the loop counting down from count - 1
derive_addresses_descending(m, n) ==
    [k \in 1..n |-> Derive(m.seed, n - k)]

\* lines 39-74
derive_addresses_from_mnemonic(m, n) ==
    [k \in 1..n |-> Derive(m.seed, k - 1)]

\* ---------------------------------------------------------------- signing
IsSurrogate(c) == c >= SurrogateLow /\ c <= SurrogateHigh

Encodable(text) == \A k \in 1..Len(text) : ~IsSurrogate(text[k])

RECURSIVE Utf8(_)
Utf8(text) ==
    IF text = <<>> THEN <<>>
    ELSE LET c == Head(text)
             bytes == IF c < 128 THEN <<c>>
                      ELSE IF c < 2048
                           THEN <<192 + (c \div 64), 128 + (c % 64)>>
                      ELSE IF c < 65536
                           THEN <<224 + (c \div 4096),
                                  128 + ((c \div 64) % 64),
                                  128 + (c % 64)>>
                           ELSE <<240 + (c \div 262144),
                                  128 + ((c \div 4096) % 64),
                                  128 + ((c \div 64) % 64),
                                  128 + (c % 64)>>
         IN bytes \o Utf8(Tail(text))

AddressBytes(address_obj) ==
    <<1>> \o address_obj.payment_part \o address_obj.staking_part

\* SigningKey.sign: a signature names the public key that verifies it and
\* the bytes it was made over
Ed25519Sign(skey, data) == [signer |-> from_signing_key(skey).public, signed |-> data]

\* an envelope with a detached payload: the message is signed but the
\* envelope carries an empty payload
sign_cip30_message_detached(msg, payment_skey, address_obj) ==
    LET address_bytes == AddressBytes(address_obj)
        protected == [alg |-> AlgEdDSA, k4 |-> address_bytes,
                      kaddress |-> address_bytes]
        sig_structure == [context |-> "Signature1", body_protected |-> protected,
                          external_aad |-> <<>>, payload |-> Utf8(msg)]
    IN [protected |-> protected,
        unprotected |-> [hashed |-> FALSE],
        payload |-> <<>>,
        signature |-> Ed25519Sign(payment_skey, sig_structure)]

\* the payload wrapped as a CBOR byte string (0x58, length) inside the
\* structure that is signed, and raw in the envelope
sign_cip30_message_wrapped(msg, payment_skey, address_obj) ==
    LET address_bytes == AddressBytes(address_obj)
        protected == [alg |-> AlgEdDSA, k4 |-> address_bytes,
                      kaddress |-> address_bytes]
        payload == Utf8(msg)
        sig_structure == [context |-> "Signature1", body_protected |-> protected,
                          external_aad |-> <<>>,
                          payload |-> <<88, Len(payload)>> \o payload]
    IN [protected |-> protected,
        unprotected |-> [hashed |-> FALSE],
        payload |-> payload,
        signature |-> Ed25519Sign(payment_skey, sig_structure)]

\* the address bytes appended to the text that is signed
sign_cip30_message_personal(msg, payment_skey, address_obj) ==
    LET address_bytes == AddressBytes(address_obj)
        protected == [alg |-> AlgEdDSA, k4 |-> address_bytes,
                      kaddress |-> address_bytes]
        payload == Utf8(msg) \o address_bytes
        sig_structure == [context |-> "Signature1", body_protected |-> protected,
                          external_aad |-> <<>>, payload |-> payload]
    IN [protected |-> protected,
        unprotected |-> [hashed |-> FALSE],
        payload |-> payload,
        signature |-> Ed25519Sign(payment_skey, sig_structure)]

\* lines 85-131
sign_cip30_message(msg, payment_skey, address_obj) ==
    LET address_bytes == AddressBytes(address_obj)
        protected == [alg |-> AlgEdDSA, k4 |-> address_bytes,
                      kaddress |-> address_bytes]
        payload == Utf8(msg)
        sig_structure == [context |-> "Signature1", body_protected |-> protected,
                          external_aad |-> <<>>, payload |-> payload]
    IN [protected |-> protected,
        unprotected |-> [hashed |-> FALSE],
        payload |-> payload,
        signature |-> Ed25519Sign(payment_skey, sig_structure)]

\* ------------------------------------------------------------ the service
Responses ==
    {[raised |-> TRUE, status |-> 0, body |-> "none"]}
    \cup {[raised |-> FALSE, status |-> OkStatus, body |-> b] : b \in {"json_msg", "text"}}
    \cup {[raised |-> FALSE, status |-> RateLimitStatus, body |-> "text"]}
    \cup {[raised |-> FALSE, status |-> ErrorStatus, body |-> b] :
            b \in {"json_msg", "json_badmsg", "text"}}

\* requests' Response.ok: raise_for_status raises for 400..599 only
ResponseOk(r) == ~(r.status >= 400 /\ r.status < 600)

\* the 429 check of line 141 left out, and every answer below 500 taken
\* for a success
register_address_lenient(r) ==
    IF r.raised
    THEN [success |-> FALSE, error |-> "exception", status |-> 0, rate_limited |-> FALSE]
    ELSE IF r.status < 500
    THEN [success |-> TRUE, error |-> "none", status |-> 0, rate_limited |-> FALSE]
    ELSE [success |-> FALSE, error |-> r.body, status |-> r.status, rate_limited |-> FALSE]

register_address(r) ==
    IF r.raised
    THEN [success |-> FALSE, error |-> "exception", status |-> 0, rate_limited |-> FALSE]
    ELSE IF r.status = RateLimitStatus
    THEN [success |-> FALSE, error |-> "text", status |-> 0, rate_limited |-> TRUE]
    ELSE IF ResponseOk(r)
    THEN [success |-> TRUE, error |-> "none", status |-> 0, rate_limited |-> FALSE]
    ELSE [success |-> FALSE, error |-> r.body, status |-> r.status, rate_limited |-> FALSE]

consolidate_address(r) ==
    IF r.raised
    THEN [success |-> FALSE, error |-> "exception", status |-> 0, rate_limited |-> FALSE]
    ELSE IF ResponseOk(r)
    THEN [success |-> TRUE, error |-> "none", status |-> 0, rate_limited |-> FALSE]
    ELSE [success |-> FALSE, error |-> r.body, status |-> r.status, rate_limited |-> FALSE]

\* ------------------------------------------------------------------ files
Absent == [kind |-> "absent", entries |-> <<>>]
Corrupt == [kind |-> "corrupt", entries |-> <<>>]
Json(list) == [kind |-> "json", entries |-> list]

\* a test that finds no file
ExistsNever(file) == FALSE

\* os.path.exists
Exists(file) == file.kind # "absent"

RegEntry(address, signature, pubkey) ==
    [address |-> address, signature |-> signature, pubkey |-> pubkey]

\* an entry of the ledger file that has no 'address' key
ForeignEntry ==
    RegEntry(NoAddress,
             sign_cip30_message(<<84>>, Derive(1, 0).payment_skey, Derive(1, 0).address_obj),
             Derive(1, 0).payment_vkey.public)

HasAddress(e) == e.address # NoAddress

Range(s) == {s[k] : k \in 1..Len(s)}

\* the set of line 170 built from nothing
AddressesOfNone(list) == {}

AddressesOf(list) == {e.address : e \in {x \in Range(list) : HasAddress(x)}}

InitPartial == {Absent, Corrupt, Json(<<ForeignEntry>>)}

\* the entry registration writes for address index of seed
Registered(seed, index) ==
    LET d == Derive(seed, index)
    IN RegEntry(d.address,
                sign_cip30_message(<<84>>, d.payment_skey, d.address_obj),
                d.payment_vkey.public)

\* registrations.json as found at the start: the first n addresses of a
\* seed, possibly with the address of another seed in one position; the
\* lists longer than MaxCount are those of the first seed with the address
\* of another seed in the second position
RegisteredLists ==
    {[k \in 1..n |-> Registered(s, k - 1)] : s \in Seeds, n \in 1..MaxCount}
    \cup {[k \in 1..n |-> Registered(IF k = p THEN t ELSE s, k - 1)] :
             s \in Seeds, t \in Seeds, n \in 1..MaxCount, p \in 1..MaxCount}
    \cup {[k \in 1..n |-> Registered(IF k = 2 THEN t ELSE 1, k - 1)] :
             t \in Seeds \ {1}, n \in (MaxCount + 1)..MaxRegistered}

InitRegFile == {Absent} \cup {Json(list) : list \in RegisteredLists}

\* the files before the first run: consolidation never reads the ledger,
\* registration only tests registrations.json for existence
InitFiles ==
    {<<Absent, r>> : r \in InitRegFile}
    \cup {<<l, r>> : l \in InitPartial, r \in {Absent, Json(<<Registered(1, 0)>>)}}

\* the test of line 312 left out
StartsWithAnything(text, prefix) == TRUE

\* str.startswith
StartsWith(text, prefix) ==
    /\ Len(text) >= Len(prefix)
    /\ SubSeq(text, 1, Len(prefix)) = prefix

\* an entry of results; status 0: no 'status' key, -1: 'unknown'
Result(address, success, error, status) ==
    [address |-> address, success |-> success, error |-> error, status |-> status]

Summary(dest, total, successful, res) ==
    [destination |-> dest, total |-> total, successful |-> successful,
     failed |-> total - successful, results |-> res]

Unbound == [bound |-> FALSE, set |-> {}]
Bound(S) == [bound |-> TRUE, set |-> S]

\* ------------------------------------------------------------------ state
VARIABLES
    prog,              \* the program that runs or ran last: "none", "reg", "con"
    pc,                \* its position
    runs,              \* program runs started so far
    exit,              \* how the last run ended
    mnemonic,          \* main: mnemonic
    count,             \* main: count
    addresses,         \* main: addresses / derived_addresses
    message,           \* main: message
    registrations,     \* register_all_addresses: registrations
    registered_addrs,  \* register_all_addresses: registered_addrs
    success_count,     \* success_count of the running orchestrator
    i,                 \* loop index, 1-based position in the target list
    reg_entry,         \* <<entry>> while the loop is recording it, else <<>>
    partial,           \* registrations-partial.json
    regFile,           \* registrations.json
    newFile,           \* registrations-new.json
    resultsFile,       \* consolidation-results.json
    destination,       \* consolidate-rewards main: destination
    registered_addresses, \* consolidate-rewards main: registered_addresses
    results,           \* consolidate_all: results
    trace,             \* operations of this run: sign, post, get, sleep
    ledger0,           \* entries of the ledger file when this run loaded it
    accepted,          \* addresses the service accepted in this run
    tally,             \* <<successes, total>> once printed, else <<>>
    written            \* names of the files this run wrote or removed

vars == <<prog, pc, runs, exit, mnemonic, count, addresses, message,
          registrations, registered_addrs, success_count, i, reg_entry,
          partial, regFile, newFile, resultsFile, destination,
          registered_addresses, results, trace, ledger0, accepted, tally,
          written>>

files == <<partial, regFile, newFile, resultsFile>>
regLocals == <<count, registrations, registered_addrs, reg_entry>>
conLocals == <<destination, registered_addresses, results>>
locals == <<addresses, message, success_count, i, regLocals, conLocals>>
ghosts == <<trace, ledger0, accepted, tally, written>>

Event(op, address, data) == [op |-> op, address |-> address, data |-> data]

\* the status the service answered with (0: no answer) and what the
\* orchestrator got back for a submission
Answer(address, r, result) ==
    Event("answer", address, <<r.status, result.success, result.rate_limited>>)

Init ==
    /\ prog = "none"
    /\ pc = "idle"
    /\ runs = 0
    /\ exit = "none"
    /\ mnemonic = Unread
    /\ count = 0
    /\ addresses = <<>>
    /\ message = <<>>
    /\ registrations = <<>>
    /\ registered_addrs = Unbound
    /\ success_count = 0
    /\ i = 0
    /\ reg_entry = <<>>
    /\ \E f \in InitFiles : partial = f[1] /\ regFile = f[2]
    /\ newFile = Absent
    /\ resultsFile = Absent
    /\ destination = <<>>
    /\ registered_addresses = <<>>
    /\ results = <<>>
    /\ trace = <<>>
    /\ ledger0 = <<>>
    /\ accepted = {}
    /\ tally = <<>>
    /\ written = {}

\* the end of input at a prompt (input and getpass raise EOFError): as an
\* answer and as a destination; of a seed it leaves the mnemonic Unread
EndOfInput == "EOF"
NoText == <<0>>

\* the process ends; inside main's try block the finally clause runs first
Leave(kind, inTry) ==
    /\ pc' = "exited"
    /\ exit' = kind
    /\ mnemonic' = IF inTry THEN Cleared ELSE mnemonic

\* ------------------------------------------- register-all-addresses: main
StartReg ==
    /\ pc \in {"idle", "exited"}
    /\ prog \in {"none", "reg"}
    /\ runs < MaxRuns
    /\ runs' = runs + 1
    /\ prog' = "reg"
    /\ pc' = "confirm"
    /\ exit' = "none"
    /\ mnemonic' = Unread
    /\ count' = 0
    /\ addresses' = <<>>
    /\ message' = <<>>
    /\ registrations' = <<>>
    /\ registered_addrs' = Unbound
    /\ success_count' = 0
    /\ i' = 0
    /\ reg_entry' = <<>>
    /\ destination' = <<>>
    /\ registered_addresses' = <<>>
    /\ results' = <<>>
    /\ trace' = <<>>
    /\ ledger0' = <<>>
    /\ accepted' = {}
    /\ tally' = <<>>
    /\ written' = {}
    /\ UNCHANGED files

\* lines 254-258; at the end of input line 255 raises EOFError, which
\* nothing catches before main's try block
RegConfirm ==
    /\ prog = "reg" /\ pc = "confirm"
    /\ \E answer \in {"yes", "no", EndOfInput} :
         IF answer = EndOfInput
         THEN Leave("uncaught", FALSE)
         ELSE IF answer # "yes"
         THEN Leave("return", FALSE)
         ELSE /\ pc' = "seed"
              /\ UNCHANGED <<exit, mnemonic>>
    /\ UNCHANGED <<prog, runs, locals, files, ghosts>>

\* lines 260-271; EOFError of getpass at line 263 is not caught
RegReadSeed ==
    /\ prog = "reg" /\ pc = "seed"
    /\ \E m \in Mnemonics \cup {Unread} :
         IF m = Unread
         THEN Leave("uncaught", FALSE)
         ELSE IF m.words \notin ValidWordCounts
         THEN /\ pc' = "exited"
              /\ exit' = "return"
              /\ mnemonic' = m
         ELSE /\ pc' = "count"
              /\ mnemonic' = m
              /\ UNCHANGED exit
    /\ UNCHANGED <<prog, runs, locals, files, ghosts>>

\* the test of line 277 left out
CountRefusedNever(n) == FALSE

\* line 277
CountRefused(n) == n < MinCount \/ n > LimitCount

\* lines 273-279; int() of a non-numeric text raises ValueError and the end
\* of input raises EOFError at line 274, neither is caught
RegReadCount ==
    /\ prog = "reg" /\ pc = "count"
    /\ \E c \in CountInputs :
         IF ~c.numeric
         THEN /\ Leave("uncaught", FALSE)
              /\ UNCHANGED count
         ELSE IF CountRefused(c.value)
         THEN /\ Leave("return", FALSE)
              /\ count' = c.value
         ELSE /\ pc' = "derive"
              /\ count' = c.value
              /\ UNCHANGED <<exit, mnemonic>>
    /\ UNCHANGED <<prog, runs, addresses, message, registrations, registered_addrs,
                   success_count, i, reg_entry, conLocals, files, ghosts>>

RegDerive ==
    /\ prog = "reg" /\ pc = "derive"
    /\ IF ~mnemonic.checksum
       THEN /\ Leave("caught", TRUE)
            /\ UNCHANGED addresses
       ELSE /\ addresses' = derive_addresses_from_mnemonic(mnemonic, count)
            /\ pc' = "fetch"
            /\ UNCHANGED <<exit, mnemonic>>
    /\ UNCHANGED <<prog, runs, message, success_count, i, regLocals, conLocals,
                   files, ghosts>>

\* get_registration_message
RegFetch ==
    /\ prog = "reg" /\ pc = "fetch"
    /\ \/ /\ Leave("caught", TRUE)
          /\ trace' = Append(trace, Event("get", NoAddress, <<>>))
          /\ UNCHANGED message
       \/ \E m \in Messages :
            /\ message' = m
            /\ trace' = Append(trace, Event("get", NoAddress, m))
            /\ pc' = "load"
            /\ UNCHANGED <<exit, mnemonic>>
    /\ UNCHANGED <<prog, runs, addresses, success_count, i, regLocals, conLocals,
                   files, ledger0, accepted, tally, written>>

\* ------------------------------------------------- register_all_addresses
\* the skip of line 188 left out
AlreadyDoneNever(address, known) == FALSE

\* line 188
AlreadyDone(address, known) == address \in known.set

\* the tally started at zero instead of the size of the loaded ledger
StartCountZero(list) == 0

\* line 177
StartCount(list) == Len(list)

\* lines 164-177: read the progress ledger.  The bare except of line 172
\* also takes a KeyboardInterrupt raised while line 169 or line 170 runs:
\* the run goes on with what was assigned until then.
RegLoad ==
    /\ prog = "reg" /\ pc = "load"
    /\ ledger0' = partial.entries
    /\ IF Exists(partial)
       THEN \E ctrl_c \in {"none", "line 169", "line 170"} :
              IF partial.kind = "corrupt" \/ ctrl_c = "line 169"
              THEN /\ registrations' = <<>>
                   /\ registered_addrs' = Unbound
              ELSE /\ registrations' = partial.entries
                   /\ registered_addrs' =
                          IF /\ ctrl_c = "none"
                             /\ \A e \in Range(partial.entries) : HasAddress(e)
                          THEN Bound(AddressesOf(partial.entries))
                          ELSE Unbound
       ELSE /\ registrations' = <<>>
            /\ registered_addrs' = Bound({})
    /\ success_count' = StartCount(registrations')
    /\ i' = 1
    /\ pc' = "loop"
    /\ UNCHANGED <<prog, runs, exit, mnemonic, count, addresses, message, reg_entry,
                   conLocals, files, trace, accepted, tally, written>>

\* no pause at all
PaceNever(tr, k, n, address) == tr

\* time.sleep(2) unless this was the last address
Pace(tr, k, n, address) ==
    IF k < n THEN Append(tr, Event("sleep", address, <<>>)) ELSE tr

\* the hex of the signing key taken for the hex of the verification key
PubkeyHexOfSigningKey(addr_info) == addr_info.payment_skey.secret

\* line 195
PubkeyHex(addr_info) == addr_info.payment_vkey.public

\* a failure that ends the run instead of the iteration
RegFailedFatal(tr, address) ==
    /\ Leave("caught", TRUE)
    /\ trace' = tr
    /\ UNCHANGED <<i, reg_entry, accepted>>

\* a failed address is tried once more before the loop goes on
RegFailedRetried(tr, address) ==
    IF Cardinality({k \in 1..Len(tr) : tr[k].op = "post" /\ tr[k].address = address}) < 2
    THEN /\ i' = i
         /\ trace' = tr
         /\ UNCHANGED <<pc, exit, mnemonic, reg_entry, accepted>>
    ELSE /\ i' = i + 1
         /\ trace' = Pace(tr, i, Len(addresses), address)
         /\ UNCHANGED <<pc, exit, mnemonic, reg_entry, accepted>>

\* lines 216-231: the address failed (answer or exception); the loop goes on
RegFailed(tr, address) ==
    /\ i' = i + 1
    /\ trace' = Pace(tr, i, Len(addresses), address)
    /\ UNCHANGED <<pc, exit, mnemonic, reg_entry, accepted>>

\* lines 179-231: one address, up to the answer of the service
RegIterate ==
    /\ prog = "reg" /\ pc = "loop" /\ i <= Len(addresses)
    /\ LET addr_info == addresses[i]
           address == addr_info.address
       IN IF ~registered_addrs.bound
          THEN \* UnboundLocalError at line 188, caught in main
               /\ Leave("caught", TRUE)
               /\ UNCHANGED <<i, reg_entry, trace, accepted>>
          ELSE IF AlreadyDone(address, registered_addrs)
          THEN /\ i' = i + 1
               /\ UNCHANGED <<pc, exit, mnemonic, reg_entry, trace, accepted>>
          ELSE IF ~Encodable(message)
          THEN \* message.encode raises inside the try of line 192
               RegFailed(trace, address)
          ELSE LET signature == sign_cip30_message(message, addr_info.payment_skey,
                                                   addr_info.address_obj)
                   pubkey == PubkeyHex(addr_info)
                   signed == Append(trace, Event("sign", address, signature))
                   posted == Append(signed, Event("post", address, <<signature, pubkey>>))
               IN \E r \in Responses :
                    LET result == register_address(r)
                        answered == Append(posted, Answer(address, r, result))
                    IN IF result.success
                       THEN /\ reg_entry' = <<RegEntry(address, signature, pubkey)>>
                            /\ accepted' = accepted \cup {address}
                            /\ trace' = answered
                            /\ pc' = "record"
                            /\ UNCHANGED <<exit, mnemonic, i>>
                       ELSE RegFailed(answered, address)
    /\ UNCHANGED <<prog, runs, count, addresses, message, registrations,
                   registered_addrs, success_count, conLocals, files, ledger0, tally,
                   written>>

\* lines 203-212: the entry joins the list and the ledger file is opened for
\* writing, which empties it
RegRecord ==
    /\ prog = "reg" /\ pc = "record"
    /\ registrations' = Append(registrations, reg_entry[1])
    /\ registered_addrs' = Bound(registered_addrs.set \cup {reg_entry[1].address})
    /\ partial' = Corrupt
    /\ written' = written \cup {"registrations-partial.json"}
    /\ pc' = "dump"
    /\ UNCHANGED <<prog, runs, exit, mnemonic, count, addresses, message,
                   success_count, i, reg_entry, conLocals, regFile, newFile,
                   resultsFile, trace, ledger0, accepted, tally>>

\* lines 213-231: the list is written, the tally grows, the loop moves on
RegDump ==
    /\ prog = "reg" /\ pc = "dump"
    /\ partial' = Json(registrations)
    /\ success_count' = success_count + 1
    /\ trace' = Pace(trace, i, Len(addresses), reg_entry[1].address)
    /\ reg_entry' = <<>>
    /\ i' = i + 1
    /\ pc' = "loop"
    /\ UNCHANGED <<prog, runs, exit, mnemonic, count, addresses, message,
                   registrations, registered_addrs, conLocals, regFile, newFile,
                   resultsFile, ledger0, accepted, tally, written>>

\* lines 233-234
RegTally ==
    /\ prog = "reg" /\ pc = "loop" /\ i > Len(addresses)
    /\ tally' = <<success_count, Len(addresses)>>
    /\ pc' = "save"
    /\ UNCHANGED <<prog, runs, exit, mnemonic, locals, files, trace, ledger0, accepted,
                   written>>

\* ------------------------------------------------- main, after the batch
\* lines 298-306
RegCleanup ==
    /\ prog = "reg" /\ pc = "save"
    /\ IF Len(registrations) > 0
       THEN /\ partial' = Absent
            /\ written' = IF Exists(partial)
                          THEN written \cup {"registrations-partial.json"}
                          ELSE written
            /\ pc' = "output"
            /\ UNCHANGED <<exit, mnemonic>>
       ELSE /\ Leave("return", TRUE)
            /\ UNCHANGED <<partial, written>>
    /\ UNCHANGED <<prog, runs, locals, regFile, newFile, resultsFile, trace, ledger0,
                   accepted, tally>>

\* lines 308-327: choose the output file and open it for writing
RegOpenOutput ==
    /\ prog = "reg" /\ pc = "output"
    /\ IF Exists(regFile)
       THEN IF \/ regFile.kind = "corrupt"
               \/ \E k \in 1..Len(regFile.entries) :
                     /\ k <= 3 /\ k <= Len(registrations)
                     /\ ~HasAddress(regFile.entries[k])
            THEN \* json.load or the comparison of line 318 raises
                 /\ Leave("caught", TRUE)
                 /\ UNCHANGED <<regFile, newFile, written>>
            ELSE /\ newFile' = Corrupt
                 /\ written' = written \cup {"registrations-new.json"}
                 /\ pc' = "dump_new"
                 /\ UNCHANGED <<exit, mnemonic, regFile>>
       ELSE /\ regFile' = Corrupt
            /\ written' = written \cup {"registrations.json"}
            /\ pc' = "dump_old"
            /\ UNCHANGED <<exit, mnemonic, newFile>>
    /\ UNCHANGED <<prog, runs, locals, partial, resultsFile, trace, ledger0,
                   accepted, tally>>

\* lines 328-350
RegWriteOutput ==
    /\ prog = "reg" /\ pc \in {"dump_old", "dump_new"}
    /\ IF pc = "dump_old"
       THEN regFile' = Json(registrations) /\ UNCHANGED newFile
       ELSE newFile' = Json(registrations) /\ UNCHANGED regFile
    /\ Leave("return", TRUE)
    /\ UNCHANGED <<prog, runs, locals, partial, resultsFile, ghosts>>

\* ---------------------------------------------- consolidate-rewards: main
StartCon ==
    /\ pc \in {"idle", "exited"}
    /\ prog \in {"none", "con"}
    /\ runs < MaxRuns
    /\ runs' = runs + 1
    /\ prog' = "con"
    /\ pc' = "registered"
    /\ exit' = "none"
    /\ mnemonic' = Unread
    /\ count' = 0
    /\ addresses' = <<>>
    /\ message' = <<>>
    /\ registrations' = <<>>
    /\ registered_addrs' = Unbound
    /\ success_count' = 0
    /\ i' = 0
    /\ reg_entry' = <<>>
    /\ destination' = <<>>
    /\ registered_addresses' = <<>>
    /\ results' = <<>>
    /\ trace' = <<>>
    /\ ledger0' = <<>>
    /\ accepted' = {}
    /\ tally' = <<>>
    /\ written' = {}
    /\ UNCHANGED files

\* lines 161-178 and 291-295
load_registered_addresses ==
    /\ prog = "con" /\ pc = "registered"
    /\ IF ~Exists(regFile)
       THEN /\ Leave("return", FALSE)
            /\ UNCHANGED registered_addresses
       ELSE IF \/ regFile.kind = "corrupt"
               \/ \E e \in Range(regFile.entries) : ~HasAddress(e)
       THEN /\ Leave("uncaught", FALSE)
            /\ UNCHANGED registered_addresses
       ELSE /\ registered_addresses' =
                   [k \in 1..Len(regFile.entries) |-> regFile.entries[k].address]
            /\ IF regFile.entries = <<>>
               THEN Leave("return", FALSE)
               ELSE /\ pc' = "destination"
                    /\ UNCHANGED <<exit, mnemonic>>
    /\ UNCHANGED <<prog, runs, addresses, message, success_count, i, regLocals,
                   destination, results, files, ghosts>>

\* lines 308-326
ConReadDestination ==
    /\ prog = "con" /\ pc = "destination"
    /\ \E d \in Destinations \cup {NoText} :
         IF d = NoText
         THEN \* EOFError at line 310, not caught
              /\ Leave("uncaught", FALSE)
              /\ UNCHANGED destination
         ELSE /\ destination' = d
              /\ IF ~StartsWith(d, ChainPrefix)
                 THEN Leave("return", FALSE)
                 ELSE /\ pc' = "seed"
                      /\ UNCHANGED <<exit, mnemonic>>
    /\ UNCHANGED <<prog, runs, addresses, message, success_count, i, regLocals,
                   registered_addresses, results, files, ghosts>>

\* lines 328-339
ConReadSeed ==
    /\ prog = "con" /\ pc = "seed"
    /\ \E m \in Mnemonics \cup {Unread} :
         IF m = Unread
         THEN \* EOFError of getpass at line 331, not caught
              Leave("uncaught", FALSE)
         ELSE IF m.words \notin ValidWordCounts
         THEN /\ pc' = "exited"
              /\ exit' = "return"
              /\ mnemonic' = m
         ELSE /\ pc' = "derive"
              /\ mnemonic' = m
              /\ UNCHANGED exit
    /\ UNCHANGED <<prog, runs, locals, files, ghosts>>

\* the comparison of line 348 left out
FirstAddressUnchecked(derived, registered) == TRUE

\* line 348
FirstAddressMatches(derived, registered) == derived[1].address = registered[1]

\* lines 341-358 and 189-203: derive, compare the first address, enter
\* consolidate_all
ConDerive ==
    /\ prog = "con" /\ pc = "derive"
    /\ IF ~mnemonic.checksum
       THEN /\ Leave("caught", TRUE)
            /\ UNCHANGED <<addresses, message, success_count, i, results>>
       ELSE LET derived == derive_addresses_from_mnemonic(mnemonic,
                                                          Len(registered_addresses))
            IN /\ addresses' = derived
               /\ IF ~FirstAddressMatches(derived, registered_addresses)
                  THEN /\ Leave("mismatch", TRUE)
                       /\ UNCHANGED <<message, success_count, i, results>>
                  ELSE /\ message' = ConsolidationText \o destination
                       /\ success_count' = 0
                       /\ results' = <<>>
                       /\ i' = 1
                       /\ pc' = "loop"
                       /\ UNCHANGED <<exit, mnemonic>>
    /\ UNCHANGED <<prog, runs, regLocals, destination, registered_addresses,
                   files, ghosts>>

\* -------------------------------------------------------- consolidate_all
\* line 196 and line 209
InDerived(address, derived) == \E k \in 1..Len(derived) : derived[k].address = address

\* the first derived record whatever the address
LookupFirst(address, derived) == derived[1]

\* line 214
Lookup(address, derived) ==
    derived[CHOOSE k \in 1..Len(derived) : derived[k].address = address]

PaceCon(tr, k, n, address) ==
    IF k < n THEN Append(tr, Event("sleep", address, <<>>)) ELSE tr

\* the entry of results for a failed answer; a message that is no text
\* makes the slice of line 240 raise, and line 248 records that instead
FailureEntry(address, result) ==
    IF result.error = "json_badmsg"
    THEN Result(address, FALSE, "exception", 0)
    ELSE Result(address, FALSE, result.error,
                IF result.status = 0 THEN 0 - 1 ELSE result.status)

\* only the successes reach the result set
results_append_successes(res, entry) == IF entry.success THEN Append(res, entry) ELSE res

\* results.append of lines 211, 230, 244 and 248
results_append(res, entry) == Append(res, entry)

\* lines 205-253: one registered address
ConIterate ==
    /\ prog = "con" /\ pc = "loop" /\ i <= Len(registered_addresses)
    /\ LET original_addr == registered_addresses[i]
           n == Len(registered_addresses)
       IN IF ~InDerived(original_addr, addresses)
          THEN /\ results' = results_append(results,
                                            Result(original_addr, FALSE,
                                                   "Not in derived set", 0))
               /\ UNCHANGED <<success_count, trace, accepted>>
          ELSE IF ~Encodable(message)
          THEN /\ results' = results_append(results,
                                            Result(original_addr, FALSE, "exception", 0))
               /\ trace' = PaceCon(trace, i, n, original_addr)
               /\ UNCHANGED <<success_count, accepted>>
          ELSE LET addr_info == Lookup(original_addr, addresses)
                   signature == sign_cip30_message(message, addr_info.payment_skey,
                                                   addr_info.address_obj)
                   signed == Append(trace, Event("sign", original_addr, signature))
                   posted == Append(signed,
                                    Event("post", original_addr, <<signature, destination>>))
               IN \E r \in Responses :
                    LET result == consolidate_address(r)
                        answered == Append(posted, Answer(original_addr, r, result))
                    IN /\ trace' = PaceCon(answered, i, n, original_addr)
                       /\ IF result.success
                          THEN /\ success_count' = success_count + 1
                               /\ accepted' = accepted \cup {original_addr}
                               /\ results' = results_append(results,
                                                  Result(original_addr, TRUE, "none", 0))
                          ELSE /\ results' = results_append(results,
                                                  FailureEntry(original_addr, result))
                               /\ UNCHANGED <<success_count, accepted>>
    /\ i' = i + 1
    /\ UNCHANGED <<prog, pc, runs, exit, mnemonic, addresses, message, regLocals,
                   destination, registered_addresses, files, ledger0, tally, written>>

\* lines 255-258: the tally is printed and the result file opened
ConTally ==
    /\ prog = "con" /\ pc = "loop" /\ i > Len(registered_addresses)
    /\ tally' = <<success_count, Len(registered_addresses)>>
    /\ resultsFile' = Corrupt
    /\ written' = written \cup {"consolidation-results.json"}
    /\ pc' = "dump_results"
    /\ UNCHANGED <<prog, runs, exit, mnemonic, locals, partial, regFile, newFile,
                   trace, ledger0, accepted>>

\* lines 259-269 and 363-378
ConWriteResults ==
    /\ prog = "con" /\ pc = "dump_results"
    /\ resultsFile' = Json(<<Summary(destination, Len(registered_addresses),
                                     success_count, results)>>)
    /\ Leave("return", TRUE)
    /\ UNCHANGED <<prog, runs, locals, partial, regFile, newFile, ghosts>>

\* ------------------------------------------------------------ interruption
TryPcs == {"derive", "fetch", "load", "loop", "record", "dump", "save",
           "output", "dump_old", "dump_new", "dump_results"}

\* Ctrl+C raises KeyboardInterrupt and ends the process (where the bare
\* except of the ledger load takes it instead, see RegLoad).  Inside main's
\* try block the finally clause overwrites the seed, unless the signal comes
\* as that clause is entered; before the try block nothing overwrites it.
\* At the seed prompt the signal may come before or after the words were
\* typed.  While a file is being written the signal leaves it truncated or,
\* coming after json.dump, complete.  The memory of the process is gone.
Interrupt ==
    /\ pc \notin {"idle", "exited"}
    /\ pc' = "exited"
    /\ exit' = "interrupted"
    /\ \E overwritten \in BOOLEAN :
         /\ overwritten => pc \in TryPcs
         /\ IF overwritten
            THEN mnemonic' = Cleared
            ELSE IF pc = "seed"
            THEN mnemonic' \in Mnemonics \cup {Unread}
            ELSE mnemonic' = mnemonic
    /\ \E dumped \in BOOLEAN :
         /\ partial' = IF dumped /\ prog = "reg" /\ pc = "dump"
                       THEN Json(registrations) ELSE partial
         /\ regFile' = IF dumped /\ pc = "dump_old"
                       THEN Json(registrations) ELSE regFile
         /\ newFile' = IF dumped /\ pc = "dump_new"
                       THEN Json(registrations) ELSE newFile
         /\ resultsFile' = IF dumped /\ pc = "dump_results"
                           THEN Json(<<Summary(destination, Len(registered_addresses),
                                               success_count, results)>>)
                           ELSE resultsFile
    /\ count' = 0
    /\ addresses' = <<>>
    /\ message' = <<>>
    /\ registrations' = <<>>
    /\ registered_addrs' = Unbound
    /\ success_count' = 0
    /\ i' = 0
    /\ reg_entry' = <<>>
    /\ destination' = <<>>
    /\ registered_addresses' = <<>>
    /\ results' = <<>>
    /\ trace' = <<>>
    /\ ledger0' = <<>>
    /\ accepted' = {}
    /\ tally' = <<>>
    /\ written' = {}
    /\ UNCHANGED <<prog, runs>>

Next ==
    \/ StartReg
    \/ RegConfirm
    \/ RegReadSeed
    \/ RegReadCount
    \/ RegDerive
    \/ RegFetch
    \/ RegLoad
    \/ RegIterate
    \/ RegRecord
    \/ RegDump
    \/ RegTally
    \/ RegCleanup
    \/ RegOpenOutput
    \/ RegWriteOutput
    \/ StartCon
    \/ load_registered_addresses
    \/ ConReadDestination
    \/ ConReadSeed
    \/ ConDerive
    \/ ConIterate
    \/ ConTally
    \/ ConWriteResults
    \/ Interrupt

Spec == Init /\ [][Next]_vars

\* the steps of the two orchestrators; a request returns or times out
\* (timeout=10) and the pauses are finite, so a batch that is not
\* interrupted keeps stepping
Batch == RegIterate \/ RegRecord \/ RegDump \/ RegTally \/ ConIterate \/ ConTally

FairSpec == Spec /\ WF_vars(Batch)

\* ------------------------------------------- the two functions on their own
\* code points with a UTF-8 encoding of one, two, three and four bytes, and
\* a lone surrogate
TextAlphabet == {84, 233, 8364, 128512, SurrogateLow}

Texts == UNION {[1..n -> TextAlphabet] : n \in 0..MaxLen}

\* a mnemonic that derives, a text to sign, nothing derived or signed yet
FnInit ==
    /\ prog = "none"
    /\ pc = "idle"
    /\ runs = 0
    /\ exit = "none"
    /\ mnemonic \in {m \in Mnemonics : m.words \in ValidWordCounts /\ m.checksum}
    /\ count = 0
    /\ addresses = <<>>
    /\ message \in Texts
    /\ registrations = <<>>
    /\ registered_addrs = Unbound
    /\ success_count = 0
    /\ i = 0
    /\ reg_entry = <<>>
    /\ partial = Absent
    /\ regFile = Absent
    /\ newFile = Absent
    /\ resultsFile = Absent
    /\ destination = <<>>
    /\ registered_addresses = <<>>
    /\ results = <<>>
    /\ trace = <<>>
    /\ ledger0 = <<>>
    /\ accepted = {}
    /\ tally = <<>>
    /\ written = {}

\* a call of derive_addresses_from_mnemonic with some count
FnDerive ==
    /\ \E n \in 0..(MaxCount + 1) :
         /\ count' = n
         /\ addresses' = derive_addresses_from_mnemonic(mnemonic, n)
    /\ i' = 0
    /\ reg_entry' = <<>>
    /\ UNCHANGED <<prog, pc, runs, exit, mnemonic, message, registrations,
                   registered_addrs, success_count, conLocals, files, ghosts>>

\* lines 194-207: a call of sign_cip30_message for one derived record, and
\* the entry made of its result
FnSign ==
    /\ Encodable(message)
    /\ \E k \in 1..Len(addresses) :
         /\ i' = k
         /\ reg_entry' = <<RegEntry(addresses[k].address,
                                     sign_cip30_message(message,
                                                        addresses[k].payment_skey,
                                                        addresses[k].address_obj),
                                     PubkeyHex(addresses[k]))>>
    /\ UNCHANGED <<prog, pc, runs, exit, mnemonic, count, addresses, message,
                   registrations, registered_addrs, success_count, conLocals,
                   files, ghosts>>

FnNext == FnDerive \/ FnSign

FnSpec == FnInit /\ [][FnNext]_vars

\* ====================================================== properties checked
Targets == {addresses[k].address : k \in 1..Len(addresses)}

\* the addresses of the entries of a ledger
Recorded(list) == {list[k].address : k \in 1..Len(list)} \ {NoAddress}

Ops(op) == {k \in 1..Len(trace) : trace[k].op = op}

Posts(a) == {k \in Ops("post") : trace[k].address = a}

Signs(a) == {k \in Ops("sign") : trace[k].address = a}

RateLimitedAnswers == {k \in Ops("answer") : trace[k].data[1] = RateLimitStatus}

FailedAnswers == {k \in Ops("answer") : ~trace[k].data[2]}

\* scenario C: one request of the batch answered 429, every other one
\* successful
OneRateLimited ==
    /\ Cardinality(RateLimitedAnswers) = 1
    /\ FailedAnswers \subseteq RateLimitedAnswers

RegBatchDone == prog = "reg" /\ tally # <<>>

ConBatchDone == prog = "con" /\ tally # <<>>

\* C1: a registration run neither signs for nor submits an address that the
\* ledger file held when the run loaded it.
LedgerIdempotence ==
    prog = "reg" =>
        \A a \in Recorded(ledger0) : Posts(a) = {} /\ Signs(a) = {}

\* a finished batch that skipped a target found in the ledger and submitted
\* another one
LedgerIdempotenceWitness ==
    /\ RegBatchDone
    /\ Recorded(ledger0) \cap Targets # {}
    /\ Ops("post") # {}

\* C2 as stated: with one 429 answer and every other request successful, the
\* rate-limited address is submitted again in the same run and every target
\* ends recorded.
RateLimitRecovery ==
    (RegBatchDone /\ OneRateLimited)
    => /\ Targets \subseteq Recorded(registrations)
       /\ \A k \in RateLimitedAnswers : Cardinality(Posts(trace[k].address)) >= 2

\* C2 amended: with one 429 answer and every other request successful, the
\* rate-limited address is submitted exactly once and stays unrecorded in
\* memory and in the ledger file, while every other target is recorded.
RateLimitedOnceUnrecorded ==
    (RegBatchDone /\ OneRateLimited)
    => \A k \in RateLimitedAnswers :
         LET a == trace[k].address
         IN /\ Cardinality(Posts(a)) = 1
            /\ a \notin Recorded(registrations)
            /\ a \notin Recorded(partial.entries)
            /\ Targets \ {a} \subseteq Recorded(registrations)
            /\ tally[1] = Len(registrations)

\* a finished batch of two addresses, the first answered 429, the second
\* recorded
RateLimitedWitness ==
    /\ RegBatchDone /\ pc = "save"
    /\ OneRateLimited
    /\ Len(addresses) = 2
    /\ \E k \in RateLimitedAnswers : trace[k].address = addresses[1].address
    /\ addresses[2].address \in Recorded(partial.entries)

\* C3: when the first derived address differs from the first registered
\* address the consolidation run signs nothing, calls nothing, writes no
\* file, never enters consolidate_all, and ends with the mismatch report;
\* consolidate_all only ever runs with the two first addresses equal.
MismatchGuard ==
    /\ (prog = "con" /\ exit = "mismatch")
        => /\ pc = "exited"
           /\ addresses[1].address # registered_addresses[1]
           /\ trace = <<>>
           /\ written = {}
           /\ tally = <<>> /\ results = <<>> /\ i = 0
    /\ (prog = "con" /\ (pc \in {"loop", "dump_results"} \/ trace # <<>>
                         \/ written # {}))
        => addresses[1].address = registered_addresses[1]

\* a consolidation run that ended on the mismatch with more than one
\* registered address
MismatchGuardWitness ==
    /\ prog = "con" /\ exit = "mismatch"
    /\ Len(registered_addresses) >= 2
    /\ addresses[1].address # registered_addresses[1]

\* C4 as stated: on every path by which main ends after the mnemonic was
\* read (return, caught or uncaught exception, mismatch) the seed has been
\* overwritten.
SeedHygiene ==
    (pc = "exited" /\ exit \in {"return", "caught", "uncaught", "mismatch"}
        /\ mnemonic # Unread)
    => mnemonic = Cleared

\* the ledger file as loaded holds only entries of distinct target addresses
LedgerWithinTargets ==
    /\ \A k \in 1..Len(ledger0) : ledger0[k].address \in Targets
    /\ Cardinality(Recorded(ledger0)) = Len(ledger0)

\* C5 as stated: with k of the n targets in the ledger the run issues
\* exactly n-k submissions, one per target not in the ledger, and if they
\* all succeed the tally and the returned ledger count n.
ResumeExact ==
    (RegBatchDone /\ LedgerWithinTargets)
    => /\ Cardinality(Ops("post")) = Len(addresses) - Len(ledger0)
       /\ \A a \in Targets \ Recorded(ledger0) : Cardinality(Posts(a)) = 1
       /\ FailedAnswers = {}
            => tally[1] = Len(addresses) /\ Len(registrations) = Len(addresses)

\* C5 amended: the run issues exactly one submission for every target that
\* is not in the ledger and whose envelope could be signed, n-k when the
\* message can be signed and none when it cannot; when all n-k are submitted
\* and succeed, the tally and the returned ledger count n.
ResumeSubmitsSigned ==
    (RegBatchDone /\ LedgerWithinTargets)
    => /\ Cardinality(Ops("post")) =
            IF Encodable(message) THEN Len(addresses) - Len(ledger0) ELSE 0
       /\ \A a \in Targets :
            Cardinality(Posts(a)) =
               IF a \notin Recorded(ledger0) /\ Encodable(message) THEN 1 ELSE 0
       /\ (Encodable(message) /\ FailedAnswers = {})
            => /\ tally = <<Len(addresses), Len(addresses)>>
               /\ Len(registrations) = Len(addresses)
               /\ Recorded(registrations) = Targets

\* a resumed batch of two addresses, one found in the ledger, the other
\* submitted and recorded
ResumeWitness ==
    /\ RegBatchDone /\ LedgerWithinTargets
    /\ Len(addresses) = 2 /\ Len(ledger0) = 1
    /\ Cardinality(Ops("post")) = 1 /\ FailedAnswers = {}
    /\ tally = <<2, 2>>

\* C6 as stated: while the registration loop runs, at most one address that
\* the service accepted in this run is missing from the ledger file.
PersistBeforeAdvance ==
    (prog = "reg" /\ pc \in {"loop", "record", "dump"})
    => Cardinality(accepted \ Recorded(partial.entries)) <= 1

Unique(list) ==
    \A j, k \in 1..Len(list) :
        (j # k /\ list[j].address # NoAddress) => list[j].address # list[k].address

\* C7: no address appears twice in the in-memory list of registrations or
\* in the ledger file.
LedgerUniqueness ==
    /\ Unique(registrations)
    /\ Unique(partial.entries)

\* a resumed run that added an entry to a ledger it had loaded with entries
LedgerUniquenessWitness ==
    /\ prog = "reg" /\ pc = "loop"
    /\ Recorded(ledger0) # {}
    /\ Len(partial.entries) > Len(ledger0)
    /\ partial.entries = registrations

\* the addresses the result file reports as consolidated to dest
Consolidated(file, dest) ==
    IF file.kind = "json" /\ file.entries[1].destination = dest
    THEN {r.address : r \in {x \in Range(file.entries[1].results) : x.success}}
    ELSE {}

\* C8 as stated: a consolidation run issues no donate_to call for an address
\* that consolidation-results.json, left by the previous run, reports as
\* consolidated to the same destination.
ConsolidationIdempotence ==
    (prog = "con" /\ pc = "loop")
    => \A a \in Consolidated(resultsFile, destination) : Posts(a) = {}

Derivable(a) == \E k \in 1..Len(addresses) : addresses[k].address = a

\* a batch is running; for registration, the ledger could be read
InBatch ==
    \/ prog = "reg" /\ pc \in {"loop", "record", "dump"} /\ registered_addrs.bound
    \/ prog = "con" /\ pc = "loop"

Total == IF prog = "reg" THEN Len(addresses) ELSE Len(registered_addresses)

\* C9: in both flows no answer, network exception or signing error ends the
\* batch: a step of a running batch either is the interruption by the user,
\* or handles the address at the loop index and moves to the next one, or
\* prints the tally successes/total once the index has passed the last
\* address; and a batch that is not interrupted reaches its tally.
FailuresNonFatal ==
    /\ [][InBatch =>
            \/ exit' = "interrupted"
            \/ /\ pc' # "exited"
               /\ tally = <<>>
               /\ IF pc = "loop" /\ i <= Total
                  THEN tally' = <<>> /\ (i' = i + 1 \/ (pc' = "record" /\ i' = i))
                  ELSE IF pc = "loop"
                  THEN tally' = <<success_count, Total>> /\ i' = i
                  ELSE tally' = <<>> /\ i' \in {i, i + 1}]_vars
    /\ InBatch ~> (tally # <<>> \/ exit = "interrupted")

\* a registration batch of two whose first request failed and whose second
\* address was submitted all the same, with the tally printed
FailuresNonFatalWitness ==
    /\ RegBatchDone /\ Len(addresses) = 2
    /\ \E k \in FailedAnswers : trace[k].address = addresses[1].address
    /\ Posts(addresses[2].address) # {}
    /\ tally[2] = 2

\* C10: the result file of a completed consolidate_all has total = number of
\* registered addresses, successful + failed = total, one result per
\* registered address in list order, and successful = number of results
\* with success; so has every result file, whatever the answers were.
SummaryConsistent ==
    /\ resultsFile.kind = "json"
        => LET sm == resultsFile.entries[1]
           IN /\ sm.successful + sm.failed = sm.total
              /\ Len(sm.results) = sm.total
              /\ sm.successful =
                    Cardinality({k \in 1..Len(sm.results) : sm.results[k].success})
    /\ (ConBatchDone /\ pc = "exited")
        => /\ resultsFile.kind = "json"
           /\ LET sm == resultsFile.entries[1]
              IN /\ sm.total = Len(registered_addresses)
                 /\ [k \in 1..Len(sm.results) |-> sm.results[k].address]
                       = registered_addresses
                 /\ sm.destination = destination
                 /\ tally = <<sm.successful, sm.total>>

\* a completed consolidation of two addresses that both failed
SummaryConsistentWitness ==
    /\ ConBatchDone /\ pc = "exited"
    /\ resultsFile.kind = "json"
    /\ resultsFile.entries[1].total = 2
    /\ resultsFile.entries[1].successful = 0

\* the pauses between a trace position and the next submission after it
PausesUntilNextPost(k) ==
    {p \in Ops("sleep") :
        /\ p > k
        /\ \E j \in Ops("post") : /\ j > p
                                  /\ \A q \in Ops("post") : q > k => q >= j}

\* C11 as stated: in each flow a 429 answer comes back to the orchestrator
\* with the rate_limited marker, and before the next submission the
\* orchestrator pauses for a backoff on top of the ordinary delay.
RateLimitBackoff ==
    \A k \in RateLimitedAnswers :
        /\ trace[k].data[3]
        /\ (\E j \in Ops("post") : j > k)
             => Cardinality(PausesUntilNextPost(k)) >= 2

\* the mnemonic typed in has a word count main refuses
BadWordCount ==
    mnemonic \in Mnemonics /\ mnemonic.words \notin {12, 15, 18, 21, 24}

\* a count outside 1..1000 is in main's variable: above 1000 it can only
\* have been typed; below 1 it is the typed one once main is past the
\* prompts
BadCount ==
    /\ prog = "reg"
    /\ \/ count > 1000
       \/ count < 1 /\ pc \notin {"confirm", "seed", "count", "exited"}

\* the destination typed in does not begin with a, d, d, r, 1
BadDestination ==
    /\ prog = "con" /\ destination # <<>>
    /\ ~(/\ Len(destination) >= 5
         /\ destination[1] = 97 /\ destination[2] = 100 /\ destination[3] = 100
         /\ destination[4] = 114 /\ destination[5] = 49)

\* something was derived, signed, sent or written, or main is inside its
\* try block
Underway ==
    pc \in TryPcs \/ addresses # <<>> \/ trace # <<>> \/ written # {}

\* C12: a mnemonic of a refused word count, a registration count outside
\* 1..1000 or a destination without the prefix addr1 ends the run by a
\* return (or by the user's interruption at that very prompt) with nothing
\* derived, nothing signed, no network call and no file written; with a bad
\* destination the seed has not been asked for.  Conversely main enters its
\* try block, derives, signs, calls the service or writes a file only with
\* a count within 1..1000 (registration), a destination with the prefix
\* (consolidation) and a mnemonic of an accepted word count.
FatalPreconditions ==
    /\ (BadWordCount \/ BadCount \/ BadDestination)
        => /\ pc = "exited" /\ exit \in {"return", "interrupted"}
           /\ addresses = <<>>
           /\ trace = <<>>
           /\ written = {}
           /\ tally = <<>>
    /\ BadDestination => mnemonic = Unread
    /\ (Underway /\ prog = "reg") => (count >= 1 /\ count <= 1000)
    /\ (Underway /\ prog = "con") => ~BadDestination /\ destination # <<>>
    /\ (Underway /\ mnemonic \in Mnemonics)
        => mnemonic.words \in {12, 15, 18, 21, 24}

\* a registration run that stopped at a count of 1001, typed after a seed
\* of 24 words
FatalPreconditionsWitness ==
    /\ prog = "reg" /\ pc = "exited" /\ exit = "return"
    /\ count = 1001
    /\ mnemonic \in Mnemonics /\ mnemonic.words = 24
    /\ addresses = <<>> /\ trace = <<>> /\ written = {}

\* C13: derive_addresses_from_mnemonic returns exactly count records, record
\* k being the record of index k - 1 of the seed whatever the count is; and
\* from one call to the next with the same seed the records at the positions
\* both outputs have are the same (prefix stability, and determinism when
\* the counts are equal).
DerivationPrefixStable ==
    /\ [](prog = "none"
            => /\ Len(addresses) = count
               /\ \A k \in 1..Len(addresses) :
                    /\ addresses[k].index = k - 1
                    /\ addresses[k] = Derive(mnemonic.seed, k - 1))
    /\ [][(prog = "none" /\ mnemonic' = mnemonic)
            => \A k \in 1..Len(addresses) :
                 k <= Len(addresses') => addresses'[k] = addresses[k]]_vars

\* the longest derivation of the bound has been made
DerivationPrefixWitness ==
    /\ prog = "none"
    /\ count = MaxCount + 1
    /\ Len(addresses) = count
    /\ addresses[count].address = <<mnemonic.seed, count - 1>>

\* PaymentVerificationKey.verify on the Sig_structure rebuilt from the
\* envelope, and the payload compared with the message
CoseVerify(vkey, msg, envelope) ==
    /\ envelope.signature.signer = vkey.public
    /\ envelope.signature.signed =
          [context |-> "Signature1", body_protected |-> envelope.protected,
           external_aad |-> <<>>, payload |-> envelope.payload]
    /\ envelope.payload = Utf8(msg)

\* header byte, payment key hash, stake key hash of the address <<seed, index>>
CanonicalBytes(address) == <<1, address[1], address[2], address[1]>>

\* C14: the envelope sign_cip30_message produces for a message and a derived
\* record verifies against the payment public key of that record and the
\* message, and the address bytes of its protected header are the canonical
\* bytes of the address.
SignatureValid ==
    (prog = "none" /\ reg_entry # <<>>)
    => LET d == addresses[i]
           envelope == reg_entry[1].signature
       IN /\ CoseVerify(d.payment_vkey, message, envelope)
          /\ envelope.protected.k4 = CanonicalBytes(d.address)
          /\ envelope.protected.kaddress = CanonicalBytes(d.address)

\* a two-character message with a multi-byte character, signed with the key
\* of the second address
SignatureValidWitness ==
    /\ prog = "none" /\ reg_entry # <<>>
    /\ i = 2
    /\ Len(message) = 2 /\ Len(reg_entry[1].signature.payload) > 2

\* the private key bytes of every wallet and index
SigningKeys ==
    {<<2, s, k>> : s \in Seeds, k \in 0..(MaxCount + MaxRegistered)}

\* an envelope with the four members of COSE_Sign1 and no private key bytes
\* in any of them
PublicEnvelope(envelope) ==
    /\ DOMAIN envelope = {"protected", "unprotected", "payload", "signature"}
    /\ DOMAIN envelope.protected = {"alg", "k4", "kaddress"}
    /\ DOMAIN envelope.unprotected = {"hashed"}
    /\ DOMAIN envelope.signature = {"signer", "signed"}
    /\ {envelope.protected.k4, envelope.protected.kaddress, envelope.payload,
        envelope.signature.signer} \cap SigningKeys = {}

\* a registration entry: address, envelope and public key, nothing else
PublicEntry(e) ==
    /\ DOMAIN e = {"address", "signature", "pubkey"}
    /\ {e.address, e.pubkey} \cap SigningKeys = {}
    /\ PublicEnvelope(e.signature)

\* the summary of a consolidation: destination, counts and one entry per
\* address with the answer or error
PublicSummary(sm) ==
    /\ DOMAIN sm = {"destination", "total", "successful", "failed", "results"}
    /\ sm.destination \notin SigningKeys
    /\ \A k \in 1..Len(sm.results) :
         /\ DOMAIN sm.results[k] = {"address", "success", "error", "status"}
         /\ sm.results[k].address \notin SigningKeys
         /\ sm.results[k].error \in {"none", "exception", "Not in derived set",
                                     "text", "json_msg"}

\* C15: every entry of the ledger file and of the two registration files,
\* the summary in the result file, and the path of every request sent to
\* the service are made of addresses, envelopes, public keys and the
\* destination only: no member holds private key bytes, and there is no
\* member besides these (none for a mnemonic or a signing key).
NoSecretCrosses ==
    /\ \A f \in {partial, regFile, newFile} :
         \A k \in 1..Len(f.entries) : PublicEntry(f.entries[k])
    /\ resultsFile.kind = "json" => PublicSummary(resultsFile.entries[1])
    /\ \A k \in Ops("post") :
         /\ trace[k].address \notin SigningKeys
         /\ Len(trace[k].data) = 2
         /\ PublicEnvelope(trace[k].data[1])
         /\ trace[k].data[2] \notin SigningKeys
         /\ prog = "con" => trace[k].data[2] = destination

\* a registration run that submitted two addresses and wrote them to
\* registrations.json
NoSecretCrossesWitness ==
    /\ prog = "reg" /\ pc = "exited" /\ exit = "return"
    /\ "registrations.json" \in written
    /\ Len(regFile.entries) = 2
    /\ Cardinality(Ops("post")) = 2

Sleeps(a) == {k \in Ops("sleep") : trace[k].address = a}

\* the address at position k of the list the running orchestrator goes
\* through
TargetAt(k) ==
    IF prog = "reg" THEN addresses[k].address ELSE registered_addresses[k]

\* position k has been dealt with and is not the last one
Passed(k) == k < i /\ k < Total

\* position k is one the orchestrator does not skip on account of the
\* ledger (registration)
NotSkipped(k) == prog = "con" \/ TargetAt(k) \notin Recorded(ledger0)

\* C16 as stated: in both flows every address that was processed and is not
\* the last of the list is followed by the pause, also the registered
\* address that is not in the derived set.
PacingAfterEvery ==
    prog \in {"reg", "con"}
    => \A k \in 1..Total :
         (Passed(k) /\ NotSkipped(k)) => Sleeps(TargetAt(k)) # {}

\* C16 amended: the pause follows exactly the addresses, other than the
\* last of the list, for which the orchestrator entered its signing and
\* submission block, whatever the outcome; an address of the ledger
\* (registration) and a registered address without a derived record
\* (consolidation) are left without any pause.
PacingAfterAttempts ==
    prog \in {"reg", "con"}
    => \A k \in 1..Total :
         Cardinality(Sleeps(TargetAt(k))) =
            IF /\ Passed(k) /\ NotSkipped(k)
               /\ prog = "con" => Derivable(TargetAt(k))
            THEN 1 ELSE 0

\* a consolidation of three addresses whose second is not in the derived
\* set: a pause after the first, none after the second, and the third
\* submitted
PacingWitness ==
    /\ ConBatchDone /\ Len(registered_addresses) = 3
    /\ ~Derivable(registered_addresses[2])
    /\ Sleeps(registered_addresses[1]) # {}
    /\ Sleeps(registered_addresses[2]) = {}
    /\ Posts(registered_addresses[3]) # {}

\* C17: in consolidation a registered address without a derived record of
\* the same address string is entered in the results as the failure 'Not in
\* derived set' with no signature made and no request sent for it, and the
\* loop has moved past it; every donate_to request for an address carries
\* the destination and an envelope that verifies, with the payment public
\* key of the derived record of that address, over the text 'Assign
\* accumulated Scavenger rights to: ' followed by the destination.
LookupSync ==
    prog = "con"
    => /\ \A k \in 1..Len(registered_addresses) :
            (k < i /\ ~Derivable(registered_addresses[k]))
            => /\ Posts(registered_addresses[k]) = {}
               /\ Signs(registered_addresses[k]) = {}
               /\ pc \in {"loop", "dump_results", "exited"}
               /\ results[k] = Result(registered_addresses[k], FALSE,
                                      "Not in derived set", 0)
       /\ \A p \in Ops("post") :
            /\ trace[p].data[2] = destination
            /\ \E j \in 1..Len(addresses) :
                 /\ addresses[j].address = trace[p].address
                 /\ CoseVerify(addresses[j].payment_vkey,
                               ConsolidationText \o destination, trace[p].data[1])

\* a consolidation of three addresses: the second has no derived record and
\* is entered as a failure, the third is submitted after it
LookupSyncWitness ==
    /\ ConBatchDone /\ Len(registered_addresses) = 3
    /\ results[2].error = "Not in derived set"
    /\ Signs(registered_addresses[2]) = {}
    /\ Cardinality(Ops("post")) = 2
    /\ results[3].success

\* C18: within one run of either orchestrator no address is submitted more
\* than once, whatever the answers were, and every answer belongs to the
\* one submission of its address.
NoRetryWithinRun ==
    /\ \A p, q \in Ops("post") : trace[p].address = trace[q].address => p = q
    /\ \A k \in Ops("answer") : Cardinality(Posts(trace[k].address)) = 1

\* a finished registration batch of two addresses, the first answered 429
\* and the second with no answer at all, each submitted once
NoRetryWitness ==
    /\ RegBatchDone /\ Len(addresses) = 2
    /\ Cardinality(FailedAnswers) = 2
    /\ \E k \in RateLimitedAnswers : trace[k].address = addresses[1].address
    /\ \E k \in Ops("answer") : /\ trace[k].address = addresses[2].address
                                /\ trace[k].data[1] = 0
    /\ Cardinality(Ops("post")) = 2

\* the addresses in registrations-new.json as an earlier run of this
\* behaviour left it at its normal end
PriorRecorded ==
    IF newFile.kind = "json" /\ "registrations-new.json" \notin written
    THEN Recorded(newFile.entries) ELSE {}

\* the earlier run went as far as the last target of this run and recorded
\* some but not all of the targets
PriorRunPartlyFailed ==
    /\ prog = "reg" /\ addresses # <<>>
    /\ addresses[Len(addresses)].address \in PriorRecorded
    /\ ~(Targets \subseteq PriorRecorded)

\* C19 as stated: a registration run that follows a run which ended
\* normally with some targets recorded and others failed does not submit
\* the targets the earlier run recorded.
RestartSkipsCompleted ==
    PriorRunPartlyFailed
    => \A a \in Targets \cap PriorRecorded : Posts(a) = {}

\* C20: a registration run fetches the message at most once; whatever is
\* signed or submitted comes after that one fetch, and the payload of every
\* envelope signed or submitted in the run is the UTF-8 encoding of the text
\* fetched, whatever the answers in between were.
OneMessagePerBatch ==
    prog = "reg"
    => /\ Cardinality(Ops("get")) <= 1
       /\ \A k \in Ops("sign") \cup Ops("post") :
            \E g \in Ops("get") :
               /\ g < k
               /\ trace[g].data = message
               /\ LET envelope == IF trace[k].op = "sign" THEN trace[k].data
                                  ELSE trace[k].data[1]
                  IN /\ envelope.payload = Utf8(trace[g].data)
                     /\ envelope.signature.signed.payload = Utf8(trace[g].data)

\* a finished batch of two addresses signed over a fetched text with a
\* two-byte character, the first of them refused by the service
OneMessageWitness ==
    /\ RegBatchDone /\ Len(addresses) = 2
    /\ message = <<233>>
    /\ Cardinality(Ops("sign")) = 2
    /\ \E k \in FailedAnswers : trace[k].address = addresses[1].address
    /\ accepted = {addresses[2].address}

\* C21: what is signed is the list of "Signature1", the protected header,
\* an empty byte string and the payload; the envelope is the list of the
\* protected header, {hashed: false}, the payload and the signature; header
\* and payload are the same values in both; the payload is the UTF-8
\* encoding of the message; the protected map holds algorithm -8 and the
\* address bytes under key 4 and under key "address", and nothing else.
EnvelopeStructure ==
    (prog = "none" /\ reg_entry # <<>>)
    => LET envelope == reg_entry[1].signature
           signed == envelope.signature.signed
       IN /\ DOMAIN envelope = {"protected", "unprotected", "payload", "signature"}
          /\ DOMAIN signed = {"context", "body_protected", "external_aad", "payload"}
          /\ signed.context = "Signature1"
          /\ signed.external_aad = <<>>
          /\ signed.body_protected = envelope.protected
          /\ signed.payload = envelope.payload
          /\ envelope.payload = Utf8(message)
          /\ envelope.unprotected = [hashed |-> FALSE]
          /\ DOMAIN envelope.protected = {"alg", "k4", "kaddress"}
          /\ envelope.protected.alg = 0 - 8
          /\ envelope.protected.k4 = AddressBytes(addresses[i].address_obj)
          /\ envelope.protected.kaddress = envelope.protected.k4

\* the envelope of a message of one three-byte character, made with the key
\* of the first address
EnvelopeStructureWitness ==
    /\ prog = "none" /\ reg_entry # <<>>
    /\ i = 1
    /\ message = <<8364>>
    /\ reg_entry[1].signature.payload = <<226, 130, 172>>

\* C22 as stated: the success count printed at the end of
\* register_all_addresses is the number of targets in the returned list,
\* does not exceed the number of targets, and is the length of the
\* returned list, whatever the ledger held.
TallyBound ==
    RegBatchDone
    => /\ tally[1] = Cardinality(Targets \cap Recorded(registrations))
       /\ tally[1] <= tally[2]
       /\ tally[1] = Len(registrations)

\* the ledger file cannot be parsed or has an entry without an address
Unreadable(file) ==
    \/ file.kind = "corrupt"
    \/ /\ file.kind = "json"
       /\ \E k \in 1..Len(file.entries) : file.entries[k].address = <<>>

\* C23 as stated: a registration run that loaded an unreadable ledger, and
\* has not rewritten it since, has not been ended by an exception; once its
\* loop is over every target has been signed for (when the message can be
\* signed) and the tally is there.
UnreadableLedgerAsEmpty ==
    (/\ prog = "reg" /\ i >= 1
     /\ "registrations-partial.json" \notin written
     /\ Unreadable(partial))
    => /\ exit \notin {"caught", "uncaught"}
       /\ (pc \in {"save", "exited"} /\ exit # "interrupted")
            => /\ tally # <<>>
               /\ Encodable(message) => \A a \in Targets : Signs(a) # {}

\* C24: registrations.json changes only when it did not exist or while the
\* run that created it is writing it; registrations-new.json changes only
\* while registrations.json exists, which stays as it is; a run writes at
\* most one of the two, and none when its list of registrations is empty at
\* the end of the batch.
SnapshotKept ==
    /\ [][/\ regFile' # regFile
             => /\ regFile.kind = "absent" \/ (pc = "dump_old" /\ regFile.kind = "corrupt")
                /\ newFile' = newFile
          /\ newFile' # newFile
             => /\ regFile.kind # "absent"
                /\ regFile' = regFile
                /\ "registrations.json" \notin written]_vars
    /\ [](prog = "reg"
            => ~({"registrations.json", "registrations-new.json"} \subseteq written))
    /\ []((prog = "reg"
             /\ written \cap {"registrations.json", "registrations-new.json"} # {})
            => Len(registrations) > 0)
    /\ []((prog = "reg" /\ pc = "exited" /\ exit = "return" /\ tally # <<>>
             /\ Len(registrations) = 0)
            => written = {})

\* a run that ended normally beside an existing registrations.json: its two
\* addresses are in registrations-new.json and the old file still holds
\* its one entry
SnapshotKeptWitness ==
    /\ prog = "reg" /\ pc = "exited" /\ exit = "return"
    /\ "registrations-new.json" \in written
    /\ newFile.kind = "json" /\ Len(newFile.entries) = 2
    /\ regFile.kind = "json" /\ Len(regFile.entries) = 1
====
